---- MODULE Spec2Model ----
(***************************************************************************)
(* Model of AppComponent (src/src/app/app.component.ts): the container     *)
(* component that keeps the task list, the category -> uncompleted-count   *)
(* map and the statistics block in step with a data facade whose           *)
(* operations complete asynchronously and in any order.                    *)
(*                                                                         *)
(* A request lives in `inflight` from the moment a handler issues it.  The *)
(* facade serves it at some later step (reading or changing the storage    *)
(* at that moment), and its response is delivered at a still later step,   *)
(* which runs the subscribe callback of the source.  A request may also    *)
(* fail: then the callback never runs.                                     *)
(***************************************************************************)
EXTENDS Integers, Sequences, FiniteSets, TLC

(* ------------------------------ bounds -------------------------------- *)

\* user actions (handler calls after ngOnInit) in one run
MaxOps == 2
\* user actions in a run that follows one add or delete of a task to its end
MaxTaskOps == 1
\* requests in flight at once: a handler runs only if those it issues fit
MaxInFlight == 3
\* tasks the storage can hold (bounds the ids addTask can hand out)
MaxTasks == 3
\* categories the storage can hold (bounds the ids addCategory can hand out)
MaxCats == 2

(* ------------------------------ values -------------------------------- *)

NULL == "null"

\* titles and search texts are strings over a two letter alphabet, kept as
\* sequences of letter codes so that "contains" and the ordering are computed
Empty == << >>
TitleA == << 1 >>
TitleB == << 2 >>

CatPool == << "c1", "c2", "c3", "c4" >>
TaskPool == << "t1", "t2", "t3", "t4", "t5" >>
PriorityIds == { "p1" }

\* the storage before the component is created
InitStorTasks ==
  { [id |-> "t1", title |-> TitleA, completed |-> FALSE, priority |-> "p1", category |-> "c1"],
    [id |-> "t2", title |-> TitleB, completed |-> TRUE, priority |-> NULL, category |-> NULL] }

InitStorCats == { [id |-> "c1", title |-> TitleA] }

\* the inputs the handlers are called with
SearchTexts == { Empty, TitleB }
StatusValues == { NULL, "true", "false" }
PriorityValues == { NULL } \cup PriorityIds
NewTasks ==
  { [title |-> TitleA, completed |-> c, priority |-> NULL, category |-> k] :
      c \in BOOLEAN, k \in { NULL, "c1" } }
NewCatTitles == { TitleB }

(* ------------------------- sequences and text -------------------------- *)

RemoveAt(s, i) == SubSeq(s, 1, i - 1) \o SubSeq(s, i + 1, Len(s))

ReplaceAt(s, i, e) == [s EXCEPT ![i] = e]

\* String.includes on two strings
Contains(title, text) ==
  \E k \in 0..(Len(title) - Len(text)) : SubSeq(title, k + 1, k + Len(text)) = text

RECURSIVE TitleLess(_, _)
\* a.localeCompare(b) < 0 on strings of lower case letters
TitleLess(a, b) ==
  IF Len(b) = 0 THEN FALSE
  ELSE IF Len(a) = 0 THEN TRUE
  ELSE IF Head(a) # Head(b) THEN Head(a) < Head(b)
  ELSE TitleLess(Tail(a), Tail(b))

RECURSIVE InsertSorted(_, _)
InsertSorted(sorted, c) ==
  IF Len(sorted) = 0 THEN << c >>
  ELSE IF TitleLess(c.title, Head(sorted).title) THEN << c >> \o sorted
  ELSE << Head(sorted) >> \o InsertSorted(Tail(sorted), c)

RECURSIVE SortByTitle(_)
\* Array.sort with the title comparator: stable, ascending
SortByTitle(cats) ==
  IF Len(cats) = 0 THEN << >>
  ELSE InsertSorted(SortByTitle(SubSeq(cats, 1, Len(cats) - 1)), cats[Len(cats)])

RECURSIVE SetToSeq(_)
\* the order in which the facade lists a set of categories (by id)
SetToSeq(S) ==
  IF S = {} THEN << >>
  ELSE LET m == CHOOSE x \in S : \A y \in S : \E i, j \in 1..Len(CatPool) :
                   /\ CatPool[i] = x.id /\ CatPool[j] = y.id /\ i <= j
       IN << m >> \o SetToSeq(S \ { m })

(* ------------------------------ facade -------------------------------- *)
(* DataHandlerService is not part of the sources at hand: its operations   *)
(* are modelled from the facade contract of the specification.             *)

InCategory(t, cat) == cat = NULL \/ t.category = cat

\* getTotalCountInCategory
TotalCountInCategory(stor, cat) == Cardinality({ t \in stor : InCategory(t, cat) })

\* getCompletedCountInCategory
CompletedCountInCategory(stor, cat) ==
  Cardinality({ t \in stor : InCategory(t, cat) /\ t.completed })

\* getUncompletedCountInCategory
UncompletedCountInCategory(stor, cat) ==
  Cardinality({ t \in stor : InCategory(t, cat) /\ ~t.completed })

\* getUncompletedTotalCount
UncompletedTotalCount(stor) == Cardinality({ t \in stor : ~t.completed })

\* the count the i-th query of updateStat asks for
StatQuery(i, stor, cat) ==
  CASE i = 1 -> TotalCountInCategory(stor, cat)
    [] i = 2 -> CompletedCountInCategory(stor, cat)
    [] i = 3 -> UncompletedCountInCategory(stor, cat)
    [] OTHER -> UncompletedTotalCount(stor)

\* searchTasks: the four filters applied conjunctively
SearchTasksResult(stor, cat, text, status, priority) ==
  { t \in stor :
      /\ InCategory(t, cat)
      /\ Contains(t.title, text)
      /\ (status = NULL \/ t.completed = (status = "true"))
      /\ (priority = NULL \/ t.priority = priority) }

\* searchCategories
SearchCategoriesResult(cats, text) ==
  SetToSeq({ c \in cats : Contains(c.title, text) })

\* getAllCategories
AllCategories(cats) == SetToSeq(cats)

\* deleteCategory: the tasks of the category become uncategorized
UncategorizeTasks(stor, cid) ==
  { IF t.category = cid THEN [t EXCEPT !.category = NULL] ELSE t : t \in stor }

(* ------------------------------- state -------------------------------- *)

VARIABLES
  \* the facade's storage, the ids it has handed out, and its version
  \* (the number of mutations it has applied)
  storTasks, storCats, idSeq, storVer,
  \* the component's fields
  categoryMap, tasks, categories, priorities,
  totalTasksCountInCategory, completedCountInCategory,
  uncompletedCountInCategory, uncompletedTotalTasksCount,
  selectedCategory, searchTaskText, searchCategoryText,
  priorityFilter, statusFilter,
  \* the requests issued and not yet completed, in the order of issue
  inflight,
  \* history: whether ngOnInit has run, the handlers called so far, how many
  \* handler calls the run may make, the number of updateStat invocations,
  \* the invocation each statistics field was last written by, and whether a
  \* kinds of the requests that failed, and the updateStat invocations a query
  \* of which failed
  initialized, hist, opLimit, statSeq, statFrom, failed, failedStat

storage == << storTasks, storCats, idSeq, storVer >>
fields == << categoryMap, tasks, categories, priorities >>
stats == << totalTasksCountInCategory, completedCountInCategory,
            uncompletedCountInCategory, uncompletedTotalTasksCount, statFrom >>
filters == << selectedCategory, searchTaskText, searchCategoryText,
              priorityFilter, statusFilter >>
history == << initialized, hist, opLimit, statSeq, failed, failedStat >>
vars == << storage, fields, stats, filters, inflight, history >>

\* the tag of a statistics field no updateStat has written yet
NoStat == [inv |-> 0, cat |-> NULL]

\* an optional field: undefined until first assigned
Undefined == [def |-> FALSE, v |-> NULL]
Defined(x) == [def |-> TRUE, v |-> x]

EmptyMap == [k \in {} |-> 0]

\* Map.set
MapSet(m, k, n) == [x \in (DOMAIN m) \cup { k } |-> IF x = k THEN n ELSE m[x]]

\* Map.delete
MapDelete(m, k) == [x \in (DOMAIN m) \ { k } |-> m[x]]

(* ------------------------------ requests ------------------------------ *)

\* `ver` is the storage version the facade served the request at
Request(kind, arg) ==
  [kind |-> kind, st |-> "sent", arg |-> arg, res |-> NULL, ver |-> 0]

\* updateTasks: the searchTasks call with the four filter values of the moment
updateTasks(cat, text, status, priority) ==
  Request("searchTasks",
          [category |-> cat, text |-> text, status |-> status, priority |-> priority])

\* updateStat: the zip of the four count queries for the selected category;
\* a slot is -1 while its query has not been answered
updateStat(cat, inv) ==
  [kind |-> "zip", st |-> "sent", arg |-> cat, res |-> << -1, -1, -1, -1 >>,
   ver |-> 0, inv |-> inv]

\* updateTasksAndStat
updateTasksAndStat(cat, text, status, priority, inv) ==
  << updateTasks(cat, text, status, priority), updateStat(cat, inv) >>

\* a fillCategories whose loop stops one category short
fillCategoriesButLast(cats) ==
  [i \in 1..(Len(cats) - 1) |-> Request("countFill", SortByTitle(cats)[i])]

\* fillCategories: one count query per category of the sorted list
fillCategories(cats) ==
  [i \in 1..Len(cats) |-> Request("countFill", SortByTitle(cats)[i])]

Pending(kind) == { i \in 1..Len(inflight) : inflight[i].kind = kind }
Sent(kind) == { i \in Pending(kind) : inflight[i].st = "sent" }
Served(kind) == { i \in Pending(kind) : inflight[i].st = "served" }

Settled == initialized /\ inflight = << >>

\* a handler that issues n requests may be called
CanAct(n) == initialized /\ Len(hist) < opLimit /\ Len(inflight) + n <= MaxInFlight

Did(op, arg) == Append(hist, [op |-> op, arg |-> arg])

(* -------------------------------- Init -------------------------------- *)

\* the state after the constructor (lines 20-72)
InitWith(limit) ==
  /\ storTasks = InitStorTasks
  /\ storCats = InitStorCats
  /\ idSeq = [task |-> Cardinality(InitStorTasks), cat |-> Cardinality(InitStorCats)]
  /\ storVer = 0
  /\ categoryMap = EmptyMap
  /\ tasks = Undefined
  /\ categories = Undefined
  /\ priorities = Undefined
  /\ totalTasksCountInCategory = -1
  /\ completedCountInCategory = -1
  /\ uncompletedCountInCategory = -1
  /\ uncompletedTotalTasksCount = -1
  /\ selectedCategory = NULL
  /\ searchTaskText = Empty
  /\ searchCategoryText = Empty
  /\ priorityFilter = NULL
  /\ statusFilter = NULL
  /\ inflight = << >>
  /\ initialized = FALSE
  /\ hist = << >>
  /\ opLimit = limit
  /\ statSeq = 0
  /\ statFrom = [k \in 1..4 |-> NoStat]
  /\ failed = {}
  /\ failedStat = {}

Init == InitWith(MaxTaskOps)

\* the state ngOnInit leaves once every request it issued has completed, with
\* getAllCategories emitting inside subscribe (sync) or later
InitReady(limit, sync) ==
  /\ storTasks = InitStorTasks
  /\ storCats = InitStorCats
  /\ idSeq = [task |-> Cardinality(InitStorTasks), cat |-> Cardinality(InitStorCats)]
  /\ storVer = 0
  /\ categoryMap =
       IF sync
       THEN [k \in { c.id : c \in InitStorCats } |->
               UncompletedCountInCategory(InitStorTasks, k)]
       ELSE EmptyMap
  /\ tasks =
       IF sync
       THEN Defined(SearchTasksResult(InitStorTasks, NULL, Empty, NULL, NULL))
       ELSE Undefined
  /\ categories =
       IF sync
       THEN Defined(SortByTitle(AllCategories(InitStorCats)))
       ELSE Defined(AllCategories(InitStorCats))
  /\ priorities = Defined(PriorityIds)
  /\ totalTasksCountInCategory = IF sync THEN StatQuery(1, InitStorTasks, NULL) ELSE -1
  /\ completedCountInCategory = IF sync THEN StatQuery(2, InitStorTasks, NULL) ELSE -1
  /\ uncompletedCountInCategory = IF sync THEN StatQuery(3, InitStorTasks, NULL) ELSE -1
  /\ uncompletedTotalTasksCount = IF sync THEN StatQuery(4, InitStorTasks, NULL) ELSE -1
  /\ selectedCategory = NULL
  /\ searchTaskText = Empty
  /\ searchCategoryText = Empty
  /\ priorityFilter = NULL
  /\ statusFilter = NULL
  /\ inflight = << >>
  /\ initialized = TRUE
  /\ hist = << >>
  /\ opLimit = limit
  /\ statSeq = IF sync THEN 1 ELSE 0
  /\ statFrom = [k \in 1..4 |-> IF sync THEN [inv |-> 1, cat |-> NULL] ELSE NoStat]
  /\ failed = {}
  /\ failedStat = {}

(* ------------------------------ ngOnInit ------------------------------ *)

\* ngOnInit, lines 74-90.  getAllCategories may emit inside subscribe (sync)
\* or later; in the second case fillCategories finds this.categories
\* undefined: it has cleared the map, `undefined.sort` throws, and the rest
\* of ngOnInit does not run.
ngOnInit ==
  /\ ~initialized
  /\ initialized' = TRUE
  /\ \E sync \in BOOLEAN :
       IF sync
       THEN /\ categories' = Defined(SortByTitle(AllCategories(storCats)))
            /\ inflight' = inflight
                 \o << Request("getAllPriorities", NULL) >>
                 \o fillCategories(AllCategories(storCats))
                 \o updateTasksAndStat(NULL, searchTaskText, statusFilter,
                                       priorityFilter, statSeq + 1)
            /\ statSeq' = statSeq + 1
       ELSE /\ categories' = categories
            /\ inflight' = inflight
                 \o << Request("getAllPriorities", NULL),
                       Request("getAllCategories", NULL) >>
            /\ statSeq' = statSeq
  /\ categoryMap' = EmptyMap
  /\ selectedCategory' = NULL
  /\ UNCHANGED << storage, tasks, priorities, stats, searchTaskText,
                  searchCategoryText, priorityFilter, statusFilter,
                  hist, opLimit, failed, failedStat >>

(* --------------------------- filter handlers -------------------------- *)

\* the categories the menu shows, from which the user picks
Shown(c) == categories.def /\ \E i \in 1..Len(categories.v) : categories.v[i] = c

\* what a callback that calls fillCategories leaves in this.categories, in the
\* map and in flight: the map is cleared, then `this.categories.sort` throws
\* when the list is still undefined
FilledList(cats) == IF cats.def THEN Defined(SortByTitle(cats.v)) ELSE cats
FilledRequests(cats) == IF cats.def THEN fillCategories(cats.v) ELSE << >>

\* an onSelectCategory that also rebuilds the category map, as the handlers
\* of a changed task do
onSelectCategoryRebuild(category) ==
  /\ CanAct(2)
  /\ selectedCategory' = category
  /\ categoryMap' = EmptyMap
  /\ categories' = FilledList(categories)
  /\ inflight' = inflight \o FilledRequests(categories)
                  \o updateTasksAndStat(category, searchTaskText, statusFilter,
                                        priorityFilter, statSeq + 1)
  /\ statSeq' = statSeq + 1
  /\ hist' = Did("onSelectCategory", category)
  /\ UNCHANGED << storage, tasks, priorities, stats, searchTaskText,
                  searchCategoryText, priorityFilter, statusFilter,
                  initialized, opLimit, failed, failedStat >>

\* onSelectCategory, lines 130-140 (lines 136-138 close the side menu on a
\* mobile device: the layout fields are not part of this model)
onSelectCategory(category) ==
  /\ CanAct(2)
  /\ selectedCategory' = category
  /\ inflight' = inflight \o updateTasksAndStat(category, searchTaskText, statusFilter,
                                                priorityFilter, statSeq + 1)
  /\ statSeq' = statSeq + 1
  /\ hist' = Did("onSelectCategory", category)
  /\ UNCHANGED << storage, fields, stats, searchTaskText, searchCategoryText,
                  priorityFilter, statusFilter,
                  initialized, opLimit, failed, failedStat >>

\* onSearchTasks, lines 202-205
onSearchTasks(searchString) ==
  /\ CanAct(1)
  /\ searchTaskText' = searchString
  /\ inflight' = Append(inflight, updateTasks(selectedCategory, searchString,
                                              statusFilter, priorityFilter))
  /\ hist' = Did("onSearchTasks", searchString)
  /\ UNCHANGED << storage, fields, stats, selectedCategory, searchCategoryText,
                  priorityFilter, statusFilter,
                  initialized, opLimit, statSeq, failed, failedStat >>

\* onFilterTasksByStatus, lines 208-211
onFilterTasksByStatus(status) ==
  /\ CanAct(1)
  /\ statusFilter' = status
  /\ inflight' = Append(inflight, updateTasks(selectedCategory, searchTaskText,
                                              status, priorityFilter))
  /\ hist' = Did("onFilterTasksByStatus", status)
  /\ UNCHANGED << storage, fields, stats, selectedCategory, searchTaskText,
                  searchCategoryText, priorityFilter,
                  initialized, opLimit, statSeq, failed, failedStat >>

\* onFilterTasksByPriority, lines 214-217
onFilterTasksByPriority(priority) ==
  /\ CanAct(1)
  /\ priorityFilter' = priority
  /\ inflight' = Append(inflight, updateTasks(selectedCategory, searchTaskText,
                                              statusFilter, priority))
  /\ hist' = Did("onFilterTasksByPriority", priority)
  /\ UNCHANGED << storage, fields, stats, selectedCategory, searchTaskText,
                  searchCategoryText, statusFilter,
                  initialized, opLimit, statSeq, failed, failedStat >>

(* ------------------------ task and category handlers ------------------- *)

\* an onAddTask that issues the recount together with addTask, for the
\* category of the task it was handed (forkJoin in place of concatMap)
onAddTaskEager(task) ==
  /\ CanAct(1)
  /\ idSeq.task + Cardinality(Sent("addTask")) < MaxTasks
  /\ inflight' = inflight \o
       << Request("addTask", task),
          Request("countAdd",
                  [t |-> [id |-> NULL, title |-> task.title, completed |-> task.completed,
                          priority |-> task.priority, category |-> task.category],
                   mutVer |-> storVer + 1]) >>
  /\ hist' = Did("onAddTask", task)
  /\ UNCHANGED << storage, fields, stats, filters,
                  initialized, opLimit, statSeq, failed, failedStat >>

\* onAddTask, lines 233-257: addTask first; the recount is issued by concatMap
\* when the created task arrives
onAddTask(task) ==
  /\ CanAct(1)
  /\ idSeq.task + Cardinality(Sent("addTask")) < MaxTasks
  /\ inflight' = Append(inflight, Request("addTask", task))
  /\ hist' = Did("onAddTask", task)
  /\ UNCHANGED << storage, fields, stats, filters,
                  initialized, opLimit, statSeq, failed, failedStat >>

\* onDeleteTask, lines 175-198, for a task of the displayed list
onDeleteTask(task) ==
  /\ CanAct(1)
  /\ tasks.def /\ task \in tasks.v
  /\ inflight' = Append(inflight, Request("deleteTask", task.id))
  /\ hist' = Did("onDeleteTask", task)
  /\ UNCHANGED << storage, fields, stats, filters,
                  initialized, opLimit, statSeq, failed, failedStat >>

\* onUpdateTask, lines 162-171, for an edited task of the displayed list
onUpdateTask(task) ==
  /\ CanAct(1)
  /\ tasks.def /\ \E t \in tasks.v : t.id = task.id /\ t # task
  /\ inflight' = Append(inflight, Request("updateTask", task))
  /\ hist' = Did("onUpdateTask", task)
  /\ UNCHANGED << storage, fields, stats, filters,
                  initialized, opLimit, statSeq, failed, failedStat >>

\* onAddCategory, lines 94-96
onAddCategory(title) ==
  /\ CanAct(1)
  /\ idSeq.cat + Cardinality(Sent("addCategory")) < MaxCats
  /\ inflight' = Append(inflight, Request("addCategory", title))
  /\ hist' = Did("onAddCategory", title)
  /\ UNCHANGED << storage, fields, stats, filters,
                  initialized, opLimit, statSeq, failed, failedStat >>

\* onSearchCategory, lines 118-126, called by the user
onSearchCategory(title) ==
  /\ CanAct(1)
  /\ searchCategoryText' = title
  /\ inflight' = Append(inflight, Request("searchCategories", title))
  /\ hist' = Did("onSearchCategory", title)
  /\ UNCHANGED << storage, fields, stats, selectedCategory, searchTaskText,
                  priorityFilter, statusFilter,
                  initialized, opLimit, statSeq, failed, failedStat >>

\* onDeleteCategory, lines 145-152, for a category of the displayed list
onDeleteCategory(category) ==
  /\ CanAct(1)
  /\ Shown(category)
  /\ inflight' = Append(inflight, Request("deleteCategory", category.id))
  /\ hist' = Did("onDeleteCategory", category)
  /\ UNCHANGED << storage, fields, stats, filters,
                  initialized, opLimit, statSeq, failed, failedStat >>

\* onUpdateCategory, lines 155-159, for a renamed category of the displayed list
onUpdateCategory(category) ==
  /\ CanAct(1)
  /\ categories.def
  /\ \E j \in 1..Len(categories.v) :
       categories.v[j].id = category.id /\ categories.v[j] # category
  /\ inflight' = Append(inflight, Request("updateCategory", category))
  /\ hist' = Did("onUpdateCategory", category)
  /\ UNCHANGED << storage, fields, stats, filters,
                  initialized, opLimit, statSeq, failed, failedStat >>

(* ------------------------- the facade at work -------------------------- *)

QueryKinds ==
  { "getAllPriorities", "getAllCategories", "searchCategories", "countFill",
    "countAdd", "countDelete", "searchTasks" }

\* what the facade answers to a query, from the storage of the moment
QueryResult(r) ==
  CASE r.kind = "getAllPriorities" -> PriorityIds
    [] r.kind = "getAllCategories" -> AllCategories(storCats)
    [] r.kind = "searchCategories" -> SearchCategoriesResult(storCats, r.arg)
    [] r.kind = "countFill" -> UncompletedCountInCategory(storTasks, r.arg.id)
    [] r.kind \in { "countAdd", "countDelete" } ->
         UncompletedCountInCategory(storTasks, r.arg.t.category)
    [] r.kind = "searchTasks" ->
         SearchTasksResult(storTasks, r.arg.category, r.arg.text, r.arg.status,
                           r.arg.priority)

\* the facade answers a query that changes nothing
ServeQuery(i) ==
  /\ inflight[i].kind \in QueryKinds
  /\ inflight[i].st = "sent"
  /\ inflight' = ReplaceAt(inflight, i,
       [inflight[i] EXCEPT !.st = "served", !.res = QueryResult(inflight[i]),
                           !.ver = storVer])
  /\ UNCHANGED << storage, fields, stats, filters, history >>

\* the facade answers the k-th count query of an updateStat
ServeStat(i, k) ==
  /\ inflight[i].kind = "zip"
  /\ inflight[i].res[k] = -1
  /\ inflight' = ReplaceAt(inflight, i,
       [inflight[i] EXCEPT !.res[k] = StatQuery(k, storTasks, inflight[i].arg)])
  /\ UNCHANGED << storage, fields, stats, filters, history >>

\* the answer to request i, computed at the storage version the step leaves
Answer(i, res) ==
  ReplaceAt(inflight, i,
            [inflight[i] EXCEPT !.st = "served", !.res = res, !.ver = storVer + 1])

\* the facade rejects request i, which names a task or category it does not hold
Reject(i) ==
  /\ inflight' = RemoveAt(inflight, i)
  /\ failed' = failed \cup { inflight[i].kind }
  /\ UNCHANGED << storage, initialized, hist, opLimit, statSeq, failedStat >>

\* addTask: the task is stored under a fresh id and returned
ServeAddTask(i) ==
  /\ inflight[i].kind = "addTask"
  /\ inflight[i].st = "sent"
  /\ LET a == inflight[i].arg
         t == [id |-> TaskPool[idSeq.task + 1], title |-> a.title,
               completed |-> a.completed, priority |-> a.priority,
               category |-> a.category]
     IN /\ storTasks' = storTasks \cup { t }
        /\ inflight' = Answer(i, t)
  /\ idSeq' = [idSeq EXCEPT !.task = @ + 1]
  /\ storVer' = storVer + 1
  /\ UNCHANGED << storCats, fields, stats, filters, history >>

\* deleteTask: the task is removed and returned
ServeDeleteTask(i) ==
  /\ inflight[i].kind = "deleteTask"
  /\ inflight[i].st = "sent"
  /\ IF \E t \in storTasks : t.id = inflight[i].arg
     THEN LET t == CHOOSE x \in storTasks : x.id = inflight[i].arg
          IN /\ storTasks' = storTasks \ { t }
             /\ inflight' = Answer(i, t)
             /\ storVer' = storVer + 1
             /\ UNCHANGED << storCats, idSeq, history >>
     ELSE Reject(i)
  /\ UNCHANGED << fields, stats, filters >>

\* updateTask: the stored task of the same id is replaced
ServeUpdateTask(i) ==
  /\ inflight[i].kind = "updateTask"
  /\ inflight[i].st = "sent"
  /\ IF \E t \in storTasks : t.id = inflight[i].arg.id
     THEN /\ storTasks' = { t \in storTasks : t.id # inflight[i].arg.id }
                            \cup { inflight[i].arg }
          /\ inflight' = Answer(i, inflight[i].arg)
          /\ storVer' = storVer + 1
          /\ UNCHANGED << storCats, idSeq, history >>
     ELSE Reject(i)
  /\ UNCHANGED << fields, stats, filters >>

\* addCategory: a category of that title is stored under a fresh id
ServeAddCategory(i) ==
  /\ inflight[i].kind = "addCategory"
  /\ inflight[i].st = "sent"
  /\ LET c == [id |-> CatPool[idSeq.cat + 1], title |-> inflight[i].arg]
     IN /\ storCats' = storCats \cup { c }
        /\ inflight' = Answer(i, c)
  /\ idSeq' = [idSeq EXCEPT !.cat = @ + 1]
  /\ storVer' = storVer + 1
  /\ UNCHANGED << storTasks, fields, stats, filters, history >>

\* updateCategory: the stored category of the same id is replaced
ServeUpdateCategory(i) ==
  /\ inflight[i].kind = "updateCategory"
  /\ inflight[i].st = "sent"
  /\ IF \E c \in storCats : c.id = inflight[i].arg.id
     THEN /\ storCats' = { c \in storCats : c.id # inflight[i].arg.id }
                           \cup { inflight[i].arg }
          /\ inflight' = Answer(i, inflight[i].arg)
          /\ storVer' = storVer + 1
          /\ UNCHANGED << storTasks, idSeq, history >>
     ELSE Reject(i)
  /\ UNCHANGED << fields, stats, filters >>

\* deleteCategory: the category is removed and returned; its tasks lose it
ServeDeleteCategory(i) ==
  /\ inflight[i].kind = "deleteCategory"
  /\ inflight[i].st = "sent"
  /\ IF \E c \in storCats : c.id = inflight[i].arg
     THEN LET c == CHOOSE x \in storCats : x.id = inflight[i].arg
          IN /\ storCats' = storCats \ { c }
             /\ storTasks' = UncategorizeTasks(storTasks, c.id)
             /\ inflight' = Answer(i, c)
             /\ storVer' = storVer + 1
             /\ UNCHANGED << idSeq, history >>
     ELSE Reject(i)
  /\ UNCHANGED << fields, stats, filters >>

\* a request other than an updateStat query fails: no callback runs (the
\* subscribe calls of the source pass no error callback)
Fail(i) ==
  /\ inflight[i].kind # "zip"
  /\ inflight' = RemoveAt(inflight, i)
  /\ failed' = failed \cup { inflight[i].kind }
  /\ UNCHANGED << storage, fields, stats, filters,
                  initialized, hist, opLimit, statSeq, failedStat >>

\* a join that, when a source errors, publishes the answers it has
ZipErrorPartial(i) ==
  /\ inflight' = RemoveAt(inflight, i)
  /\ LET r == inflight[i].res
         tag == [inv |-> inflight[i].inv, cat |-> inflight[i].arg]
     IN /\ totalTasksCountInCategory' = IF r[1] # -1 THEN r[1] ELSE totalTasksCountInCategory
        /\ completedCountInCategory' = IF r[2] # -1 THEN r[2] ELSE completedCountInCategory
        /\ uncompletedCountInCategory' = IF r[3] # -1 THEN r[3] ELSE uncompletedCountInCategory
        /\ uncompletedTotalTasksCount' = IF r[4] # -1 THEN r[4] ELSE uncompletedTotalTasksCount
        /\ statFrom' = [j \in 1..4 |-> IF r[j] # -1 THEN tag ELSE statFrom[j]]

\* lines 272-278: a source of zip errors; zip unsubscribes from the other
\* three and never emits, and subscribe was given no error callback, so no
\* field is assigned
ZipError(i) ==
  /\ inflight' = RemoveAt(inflight, i)
  /\ UNCHANGED stats

\* the k-th count query of an updateStat fails instead of being answered
FailStat(i, k) ==
  /\ inflight[i].kind = "zip"
  /\ inflight[i].res[k] = -1
  /\ failedStat' = failedStat \cup { inflight[i].inv }
  /\ ZipError(i)
  /\ UNCHANGED << storage, fields, filters,
                  initialized, hist, opLimit, statSeq, failed >>

(* ------------------------------ callbacks ------------------------------ *)

\* line 75: priorities => this.priorities = priorities
DeliverPriorities(i) ==
  /\ inflight[i].kind = "getAllPriorities"
  /\ inflight[i].st = "served"
  /\ priorities' = Defined(inflight[i].res)
  /\ inflight' = RemoveAt(inflight, i)
  /\ UNCHANGED << storage, categoryMap, tasks, categories, stats, filters,
                  history >>

\* line 76: categories => this.categories = categories
DeliverAllCategories(i) ==
  /\ inflight[i].kind = "getAllCategories"
  /\ inflight[i].st = "served"
  /\ categories' = Defined(inflight[i].res)
  /\ inflight' = RemoveAt(inflight, i)
  /\ UNCHANGED << storage, categoryMap, tasks, priorities, stats, filters,
                  history >>

\* line 112: count => this.categoryMap.set(cat, count)
DeliverCountFill(i) ==
  /\ inflight[i].kind = "countFill"
  /\ inflight[i].st = "served"
  /\ categoryMap' = MapSet(categoryMap, inflight[i].arg.id, inflight[i].res)
  /\ inflight' = RemoveAt(inflight, i)
  /\ UNCHANGED << storage, tasks, categories, priorities, stats, filters,
                  history >>

\* lines 226-228: tasks => this.tasks = tasks
DeliverSearchTasks(i) ==
  /\ inflight[i].kind = "searchTasks"
  /\ inflight[i].st = "served"
  /\ tasks' = Defined(inflight[i].res)
  /\ inflight' = RemoveAt(inflight, i)
  /\ UNCHANGED << storage, categoryMap, categories, priorities, stats, filters,
                  history >>

\* a callback that forgets the last assignment (line 282)
StatCallbackPartial(old, array) == [k \in 1..4 |-> IF k = 4 THEN old[k] ELSE array[k]]

\* lines 278-283: the four fields as the callback leaves them, given what
\* they held and what zip emitted; a field is a pair << value, tag >>, the tag naming
\* the updateStat invocation and the category it asked for
StatCallback(old, array) == [k \in 1..4 |-> array[k]]

\* the last of the four answers arrives: zip emits and the callback runs
DeliverZip(i) ==
  /\ inflight[i].kind = "zip"
  /\ \A k \in 1..4 : inflight[i].res[k] # -1
  /\ LET old == << << totalTasksCountInCategory, statFrom[1] >>,
                   << completedCountInCategory, statFrom[2] >>,
                   << uncompletedCountInCategory, statFrom[3] >>,
                   << uncompletedTotalTasksCount, statFrom[4] >> >>
         array == [k \in 1..4 |-> << inflight[i].res[k],
                                     [inv |-> inflight[i].inv, cat |-> inflight[i].arg] >>]
         new == StatCallback(old, array)
     IN /\ totalTasksCountInCategory' = new[1][1]
        /\ completedCountInCategory' = new[2][1]
        /\ uncompletedCountInCategory' = new[3][1]
        /\ uncompletedTotalTasksCount' = new[4][1]
        /\ statFrom' = [k \in 1..4 |-> new[k][2]]
  /\ inflight' = RemoveAt(inflight, i)
  /\ UNCHANGED << storage, fields, filters, history >>

\* line 95: () => this.fillCategories()
DeliverAddCategory(i) ==
  /\ inflight[i].kind = "addCategory"
  /\ inflight[i].st = "served"
  /\ categoryMap' = EmptyMap
  /\ categories' = FilledList(categories)
  /\ inflight' = RemoveAt(inflight, i) \o FilledRequests(categories)
  /\ UNCHANGED << storage, tasks, priorities, stats, filters, history >>

\* lines 122-125: categories => { this.categories = categories; this.fillCategories() }
DeliverSearchCategories(i) ==
  /\ inflight[i].kind = "searchCategories"
  /\ inflight[i].st = "served"
  /\ categoryMap' = EmptyMap
  /\ categories' = Defined(SortByTitle(inflight[i].res))
  /\ inflight' = RemoveAt(inflight, i) \o fillCategories(inflight[i].res)
  /\ UNCHANGED << storage, tasks, priorities, stats, filters, history >>

\* lines 146-151: the selection is reset, the entry deleted, the category
\* search re-run with the search text as it is, the task list re-queried
DeliverDeleteCategory(i) ==
  /\ inflight[i].kind = "deleteCategory"
  /\ inflight[i].st = "served"
  /\ selectedCategory' = NULL
  /\ categoryMap' = MapDelete(categoryMap, inflight[i].res.id)
  /\ inflight' = RemoveAt(inflight, i)
       \o << Request("searchCategories", searchCategoryText),
             updateTasks(NULL, searchTaskText, statusFilter, priorityFilter) >>
  /\ UNCHANGED << storage, tasks, categories, priorities, stats, searchTaskText,
                  searchCategoryText, priorityFilter, statusFilter, history >>

\* lines 156-158: () => this.onSearchCategory(this.searchCategoryText)
DeliverUpdateCategory(i) ==
  /\ inflight[i].kind = "updateCategory"
  /\ inflight[i].st = "served"
  /\ inflight' = RemoveAt(inflight, i)
       \o << Request("searchCategories", searchCategoryText) >>
  /\ UNCHANGED << storage, fields, stats, filters, history >>

\* lines 164-169: () => { this.fillCategories(); this.updateTasksAndStat() }
DeliverUpdateTask(i) ==
  /\ inflight[i].kind = "updateTask"
  /\ inflight[i].st = "served"
  /\ categoryMap' = EmptyMap
  /\ categories' = FilledList(categories)
  /\ inflight' = RemoveAt(inflight, i) \o FilledRequests(categories)
       \o (IF categories.def
           THEN updateTasksAndStat(selectedCategory, searchTaskText, statusFilter,
                                   priorityFilter, statSeq + 1)
           ELSE << >>)
  /\ statSeq' = IF categories.def THEN statSeq + 1 ELSE statSeq
  /\ UNCHANGED << storage, tasks, priorities, stats, filters,
                  initialized, hist, opLimit, failed, failedStat >>

\* the recount concatMap issues for the task the mutation returned
Recount(kind, r) == Request(kind, [t |-> r.res, mutVer |-> r.ver])

\* lines 237-242: concatMap(task => getUncompletedCountInCategory(task.category))
DeliverAddTask(i) ==
  /\ inflight[i].kind = "addTask"
  /\ inflight[i].st = "served"
  /\ inflight' = Append(RemoveAt(inflight, i), Recount("countAdd", inflight[i]))
  /\ UNCHANGED << storage, fields, stats, filters, history >>

\* lines 178-182: concatMap(task => getUncompletedCountInCategory(task.category))
DeliverDeleteTask(i) ==
  /\ inflight[i].kind = "deleteTask"
  /\ inflight[i].st = "served"
  /\ inflight' = Append(RemoveAt(inflight, i), Recount("countDelete", inflight[i]))
  /\ UNCHANGED << storage, fields, stats, filters, history >>

\* a callback that, instead of storing the count the facade returned, adds
\* one to the count the map holds
ApplyRecountIncrement(i) ==
  /\ inflight[i].st = "served"
  /\ categoryMap' =
       IF inflight[i].arg.t.category # NULL
       THEN MapSet(categoryMap, inflight[i].arg.t.category,
                   IF inflight[i].arg.t.category \in DOMAIN categoryMap
                   THEN categoryMap[inflight[i].arg.t.category] + 1
                   ELSE inflight[i].res)
       ELSE categoryMap
  /\ inflight' = RemoveAt(inflight, i)
       \o updateTasksAndStat(selectedCategory, searchTaskText, statusFilter,
                             priorityFilter, statSeq + 1)
  /\ statSeq' = statSeq + 1
  /\ UNCHANGED << storage, tasks, categories, priorities, stats, filters,
                  initialized, hist, opLimit, failed, failedStat >>

\* the subscribe callback of onAddTask and of onDeleteTask: the point update
\* of the map when the task has a category, then updateTasksAndStat
ApplyRecount(i) ==
  /\ inflight[i].st = "served"
  /\ categoryMap' =
       IF inflight[i].arg.t.category # NULL
       THEN MapSet(categoryMap, inflight[i].arg.t.category, inflight[i].res)
       ELSE categoryMap
  /\ inflight' = RemoveAt(inflight, i)
       \o updateTasksAndStat(selectedCategory, searchTaskText, statusFilter,
                             priorityFilter, statSeq + 1)
  /\ statSeq' = statSeq + 1
  /\ UNCHANGED << storage, tasks, categories, priorities, stats, filters,
                  initialized, hist, opLimit, failed, failedStat >>

\* lines 243-255
DeliverAddCount(i) == inflight[i].kind = "countAdd" /\ ApplyRecount(i)

\* lines 183-195
DeliverDeleteCount(i) == inflight[i].kind = "countDelete" /\ ApplyRecount(i)

(* --------------------- statistics: specification ----------------------- *)

Requests == 1..Len(inflight)

NextStat ==
  \/ \E c \in { NULL } \cup { x.id : x \in { y \in storCats : Shown(y) } } :
       onSelectCategory(c)
  \/ \E i \in Requests : ServeQuery(i)
  \/ \E i \in Requests, k \in 1..4 : ServeStat(i, k)
  \/ \E i \in Requests : DeliverSearchTasks(i)
  \/ \E i \in Requests : DeliverZip(i)
  \/ \E i \in Requests : Fail(i)
  \/ \E i \in Requests, k \in 1..4 : FailStat(i, k)

SpecStat == (\E sync \in BOOLEAN : InitReady(MaxOps, sync)) /\ [][NextStat]_vars

(* ----------------------- statistics: properties ------------------------ *)

Published == statFrom[1].inv > 0

\* C1: the statistics tuple is atomic: in every reachable state the four
\* fields were written by the same updateStat invocation, whatever the order
\* in which the count queries of the invocations in flight are answered.
C1_StatAtomic == \A j, k \in 1..4 : statFrom[j] = statFrom[k]

\* C1 witness: a tuple of a second or later invocation is displayed while
\* another invocation has some of its four answers and lacks the others
C1_Witness ==
  /\ statFrom[1].inv >= 2
  /\ \E i \in Pending("zip") :
       /\ \E k \in 1..4 : inflight[i].res[k] # -1
       /\ \E k \in 1..4 : inflight[i].res[k] = -1

\* C2: when recomputes overlap, only the tuple of the last issued selection
\* is published: once everything has settled (and no query has failed) the
\* displayed tuple is the one computed for the current selectedCategory.
C2_LastIssuedStatWins ==
  (Settled /\ failedStat = {} /\ Published) =>
     \A k \in 1..4 : statFrom[k].cat = selectedCategory

\* C9: if one of the four count queries of a recompute fails, no field is
\* written by that recompute: every displayed field comes from an invocation
\* all of whose queries were answered.
C9_FailedStatWithheld == \A k \in 1..4 : statFrom[k].inv \notin failedStat

\* C9 witness: a recompute issued after the displayed tuple was published has
\* failed, everything has settled, and the older tuple is still displayed
C9_Witness ==
  /\ Published /\ Settled
  /\ \E f \in failedStat : statFrom[1].inv < f

(* ------------------------ filters: specification ----------------------- *)

ShownCategoryIds == { c.id : c \in { y \in storCats : Shown(y) } }

FilterHandlers ==
  \/ \E c \in { NULL } \cup ShownCategoryIds : onSelectCategory(c)
  \/ \E t \in SearchTexts : onSearchTasks(t)
  \/ \E v \in StatusValues : onFilterTasksByStatus(v)
  \/ \E p \in PriorityValues : onFilterTasksByPriority(p)

\* filter changes whose requests complete in any order and never fail
NextFilter ==
  \/ FilterHandlers
  \/ \E i \in Requests : ServeQuery(i)
  \/ \E i \in Requests, k \in 1..4 : ServeStat(i, k)
  \/ \E i \in Requests : DeliverSearchTasks(i)
  \/ \E i \in Requests : DeliverZip(i)

SpecFilter == (\E sync \in BOOLEAN : InitReady(MaxOps, sync)) /\ [][NextFilter]_vars

\* C3: after any sequence of filter changes, with the searchTasks requests
\* completing in any order, at every settled point the displayed task list is
\* the conjunction of the four current filter values applied to the task set.
C3_SettledTasksMatchFilters ==
  (Settled /\ hist # << >>) =>
     /\ tasks.def
     /\ tasks.v = SearchTasksResult(storTasks, selectedCategory, searchTaskText,
                                    statusFilter, priorityFilter)

(* --------------------- category index: specification ------------------- *)

DisplayedTasks == IF tasks.def THEN tasks.v ELSE {}
DisplayedCategories ==
  IF categories.def THEN { categories.v[j] : j \in 1..Len(categories.v) } ELSE {}

\* the edits the user makes to a displayed task: the completion flag toggled,
\* or the category changed
EditedTasks ==
  { [t EXCEPT !.completed = ~t.completed] : t \in DisplayedTasks }
    \cup { [t EXCEPT !.category = c] :
             t \in DisplayedTasks, c \in { NULL } \cup { x.id : x \in DisplayedCategories } }

RenamedCategories ==
  { [c EXCEPT !.title = n] : c \in DisplayedCategories, n \in { TitleA, TitleB } }

TaskHandlers ==
  \/ \E t \in NewTasks : onAddTask(t)
  \/ \E t \in DisplayedTasks : onDeleteTask(t)
  \/ \E t \in EditedTasks : onUpdateTask(t)

CategoryHandlers ==
  \/ \E n \in NewCatTitles : onAddCategory(n)
  \/ \E c \in DisplayedCategories : onDeleteCategory(c)
  \/ \E c \in RenamedCategories : onUpdateCategory(c)
  \/ \E n \in SearchTexts : onSearchCategory(n)

\* the facade applies a change
FacadeMutations ==
  \/ \E i \in Requests : ServeAddTask(i)
  \/ \E i \in Requests : ServeDeleteTask(i)
  \/ \E i \in Requests : ServeUpdateTask(i)
  \/ \E i \in Requests : ServeAddCategory(i)
  \/ \E i \in Requests : ServeUpdateCategory(i)
  \/ \E i \in Requests : ServeDeleteCategory(i)

\* a confirmation or a count arrives
IndexCallbacks ==
  \/ \E i \in Requests : DeliverAddTask(i)
  \/ \E i \in Requests : DeliverDeleteTask(i)
  \/ \E i \in Requests : DeliverAddCount(i)
  \/ \E i \in Requests : DeliverDeleteCount(i)
  \/ \E i \in Requests : DeliverUpdateTask(i)
  \/ \E i \in Requests : DeliverAddCategory(i)
  \/ \E i \in Requests : DeliverUpdateCategory(i)
  \/ \E i \in Requests : DeliverDeleteCategory(i)
  \/ \E i \in Requests : DeliverSearchCategories(i)
  \/ \E i \in Requests : DeliverCountFill(i)

StatSteps ==
  \/ \E i \in Requests, k \in 1..4 : ServeStat(i, k)
  \/ \E i \in Requests : DeliverZip(i)

TaskSteps ==
  \/ \E i \in Requests : ServeAddTask(i)
  \/ \E i \in Requests : ServeDeleteTask(i)
  \/ \E i \in Requests : DeliverAddTask(i)
  \/ \E i \in Requests : DeliverDeleteTask(i)
  \/ \E i \in Requests : DeliverAddCount(i)
  \/ \E i \in Requests : DeliverDeleteCount(i)
  \/ \E i \in Requests : ServeQuery(i)
  \/ \E i \in Requests : DeliverSearchTasks(i)
  \/ StatSteps

\* tasks added and deleted, the requests completing in any order
NextTask ==
  \/ \E t \in NewTasks : onAddTask(t)
  \/ \E t \in DisplayedTasks : onDeleteTask(t)
  \/ TaskSteps

SpecTask == (\E sync \in BOOLEAN : InitReady(MaxOps, sync)) /\ [][NextTask]_vars

\* one add or delete of a task, any request of which may fail
NextRecount ==
  \/ NextTask
  \/ \E i \in Requests : Fail(i)
  \/ \E i \in Requests, k \in 1..4 : FailStat(i, k)

SpecRecount == (\E sync \in BOOLEAN : InitReady(MaxTaskOps, sync)) /\ [][NextRecount]_vars

\* the task the first addTask of a run creates
CreatedId == TaskPool[Cardinality(InitStorTasks) + 1]

\* a task list refresh, an uncompleted task added to c1, and that task deleted
\* as soon as the list shows it
NextAddDelete ==
  \/ onSearchTasks(Empty)
  \/ onAddTask([title |-> TitleA, completed |-> FALSE, priority |-> NULL,
                category |-> "c1"])
  \/ \E t \in { x \in DisplayedTasks : x.id = CreatedId } : onDeleteTask(t)
  \/ TaskSteps

SpecAddDelete ==
  (\E sync \in BOOLEAN : InitReady(MaxOps + 1, sync)) /\ [][NextAddDelete]_vars

CategorySteps ==
  \/ \E i \in Requests : ServeAddCategory(i)
  \/ \E i \in Requests : ServeUpdateCategory(i)
  \/ \E i \in Requests : ServeDeleteCategory(i)
  \/ \E i \in Requests : DeliverAddCategory(i)
  \/ \E i \in Requests : DeliverUpdateCategory(i)
  \/ \E i \in Requests : DeliverDeleteCategory(i)
  \/ \E i \in Requests : DeliverSearchCategories(i)
  \/ \E i \in Requests : DeliverCountFill(i)
  \/ \E i \in Requests : ServeQuery(i)
  \/ \E i \in Requests : DeliverSearchTasks(i)

\* categories added, renamed, deleted and searched, the requests completing in
\* any order
NextCategory ==
  \/ CategoryHandlers
  \/ CategorySteps

SpecCategory == (\E sync \in BOOLEAN : InitReady(MaxOps, sync)) /\ [][NextCategory]_vars

\* a category selected, the category list searched and a category deleted
NextDeleteSelected ==
  \/ \E c \in { NULL } \cup ShownCategoryIds : onSelectCategory(c)
  \/ onSearchCategory(Empty)
  \/ \E c \in DisplayedCategories : onDeleteCategory(c)
  \/ \E i \in Requests : ServeDeleteCategory(i)
  \/ \E i \in Requests : DeliverDeleteCategory(i)
  \/ \E i \in Requests : DeliverSearchCategories(i)
  \/ \E i \in Requests : DeliverCountFill(i)
  \/ \E i \in Requests : ServeQuery(i)
  \/ \E i \in Requests : DeliverSearchTasks(i)
  \/ StatSteps

SpecDeleteSelected ==
  (\E sync \in BOOLEAN : InitReady(MaxOps, sync)) /\ [][NextDeleteSelected]_vars

\* a category search and a task search after a complete initialization, any
\* request of which may fail
NextFail ==
  \/ \E n \in SearchTexts : onSearchCategory(n)
  \/ \E t \in SearchTexts : onSearchTasks(t)
  \/ \E i \in Requests : ServeQuery(i)
  \/ \E i \in Requests : DeliverSearchCategories(i)
  \/ \E i \in Requests : DeliverCountFill(i)
  \/ \E i \in Requests : DeliverSearchTasks(i)
  \/ \E i \in Requests : Fail(i)

SpecFail == InitReady(MaxOps, TRUE) /\ [][NextFail]_vars

(* ----------------------- category index: properties -------------------- *)

StoredCategoryIds == { c.id : c \in storCats }

\* C4: the counts of the category map are never negative, and once everything
\* has settled the map holds no entry for a category the storage has deleted:
\* a recount that arrives after the deletion is not put back by set.
C4_NoEntryForDeletedCategory ==
  /\ \A k \in DOMAIN categoryMap : categoryMap[k] >= 0
  /\ Settled => \A k \in DOMAIN categoryMap : k \in StoredCategoryIds

\* C5: in every settled state the count the map stores for a category is the
\* number of uncompleted tasks the storage holds in that category.
C5_SettledCountsMatchStorage ==
  (Settled /\ failed = {}) =>
     \A k \in DOMAIN categoryMap :
        categoryMap[k] = UncompletedCountInCategory(storTasks, k)

\* C6: the recount of an add or a delete of a task is issued for the task the
\* facade returned, after the change was confirmed: the count it brings is
\* never computed from a storage older than the change.
C6_RecountAfterConfirmation ==
  \A i \in Pending("countAdd") \cup Pending("countDelete") :
     /\ inflight[i].arg.t.id # NULL
     /\ inflight[i].arg.mutVer >= 1
     /\ inflight[i].st = "served" => inflight[i].ver >= inflight[i].arg.mutVer

\* C6 witness: the recount of an add or of a delete, answered from a storage
\* that holds the change and not yet delivered
C6_Witness ==
  \E i \in Served("countAdd") \cup Served("countDelete") :
     inflight[i].ver >= inflight[i].arg.mutVer

\* an uncompleted task was added to c1 and then, as the next user action,
\* deleted; no other user action changed the storage
AddedThenDeleted ==
  /\ \E j \in 1..(Len(hist) - 1) :
       /\ hist[j].op = "onAddTask"
       /\ hist[j].arg.category = "c1" /\ ~hist[j].arg.completed
       /\ hist[j + 1].op = "onDeleteTask"
       /\ hist[j + 1].arg.id = CreatedId
  /\ \A j \in 1..Len(hist) :
       hist[j].op \in { "onAddTask", "onDeleteTask", "onSearchTasks" }
  /\ Cardinality({ j \in 1..Len(hist) : hist[j].op # "onSearchTasks" }) = 2

\* C7: an uncompleted task added to a category and deleted as soon as it is
\* known settles with the map's count for the category at its original value,
\* whatever the order in which the two recounts complete.
C7_AddThenDeleteRestoresCount ==
  (Settled /\ failed = {} /\ AddedThenDeleted) =>
     /\ "c1" \in DOMAIN categoryMap
     /\ categoryMap["c1"] = UncompletedCountInCategory(InitStorTasks, "c1")

\* the user selected c1 and then deleted it, and did nothing else
SelectedThenDeleted ==
  /\ Len(hist) = 2
  /\ hist[1].op = "onSelectCategory" /\ hist[1].arg = "c1"
  /\ hist[2].op = "onDeleteCategory" /\ hist[2].arg.id = "c1"
  /\ failed = {} /\ failedStat = {}

\* C8: deleting the selected category resets the selection to null, removes
\* the category's entry from the map, keeps the category search text, and
\* re-queries the task list with category null, so that after settling the
\* task list is the one of the "All" filter.
C8_DeleteSelectedShowsAll ==
  (Settled /\ SelectedThenDeleted) =>
     /\ selectedCategory = NULL
     /\ "c1" \notin DOMAIN categoryMap
     /\ searchCategoryText = Empty
     /\ tasks.def
     /\ tasks.v = SearchTasksResult(storTasks, NULL, searchTaskText, statusFilter,
                                    priorityFilter)

\* C10: a failed request leaves the view it would have refreshed at its last
\* good value: when the count query of a rebuild of the map fails, the map
\* still holds the last good count of that category, and when searchTasks
\* fails the displayed task list is unchanged.
C10_FailureKeepsLastGood ==
  /\ (/\ Settled /\ Len(hist) = 1 /\ hist[1].op = "onSearchCategory"
      /\ hist[1].arg = Empty /\ failed = { "countFill" })
       => /\ "c1" \in DOMAIN categoryMap
          /\ categoryMap["c1"] = UncompletedCountInCategory(storTasks, "c1")
  /\ (/\ Settled /\ Len(hist) = 1 /\ hist[1].op = "onSearchTasks"
      /\ failed = { "searchTasks" })
       => tasks = Defined(SearchTasksResult(storTasks, NULL, Empty, NULL, NULL))

(* ------------------------- the whole component -------------------------- *)

Next ==
  \/ ngOnInit
  \/ FilterHandlers
  \/ TaskHandlers
  \/ CategoryHandlers
  \/ FacadeMutations
  \/ IndexCallbacks
  \/ \E i \in Requests : ServeQuery(i)
  \/ \E i \in Requests : DeliverPriorities(i)
  \/ \E i \in Requests : DeliverAllCategories(i)
  \/ \E i \in Requests : DeliverSearchTasks(i)
  \/ StatSteps
  \/ \E i \in Requests : Fail(i)
  \/ \E i \in Requests, k \in 1..4 : FailStat(i, k)

Spec == Init /\ [][Next]_vars

\* ngOnInit and the requests it issues, with no user action
NextInit ==
  \/ ngOnInit
  \/ \E i \in Requests : ServeQuery(i)
  \/ \E i \in Requests : DeliverPriorities(i)
  \/ \E i \in Requests : DeliverAllCategories(i)
  \/ \E i \in Requests : DeliverCountFill(i)
  \/ \E i \in Requests : DeliverSearchTasks(i)
  \/ StatSteps

SpecInit == InitWith(0) /\ [][NextInit]_vars

\* the states InitReady(limit, sync) starts from are the settled states that
\* SpecInit reaches: ~ReadyAfterInit(sync) is violated under SpecInit for
\* either value of sync
ReadyAfterInit(sync) ==
  /\ Settled
  /\ failed = {} /\ failedStat = {}
  /\ storTasks = InitStorTasks /\ storCats = InitStorCats
  /\ priorities = Defined(PriorityIds)
  /\ tasks.def = sync
  /\ Published = sync
  /\ categories = Defined(SortByTitle(AllCategories(InitStorCats)))
  /\ categoryMap = IF sync THEN [k \in StoredCategoryIds |->
                                  UncompletedCountInCategory(InitStorTasks, k)]
                   ELSE EmptyMap

(* -------------------- category list after a confirmation ---------------- *)

\* the categories the run has created: those the storage held no id of at start
CreatedCategories == { c \in storCats : c.id \notin { x.id : x \in InitStorCats } }

\* C11: after the confirmation of an added category the category search is
\* re-run with the current search text and the map rebuilt from its result:
\* once everything has settled, a created category whose title matches the
\* search text is in the category list and has an entry in the map.
C11_AddedCategoryListed ==
  (Settled /\ failed = {}) =>
     \A c \in CreatedCategories :
        Contains(c.title, searchCategoryText) =>
           Shown(c) /\ c.id \in DOMAIN categoryMap

(* ------------------------ what a filter change issues ------------------- *)

FilterOps ==
  { "onSelectCategory", "onSearchTasks", "onFilterTasksByStatus",
    "onFilterTasksByPriority" }

\* the step is a call of one of the four filter handlers
FilterChanged ==
  /\ Len(hist') = Len(hist) + 1
  /\ hist'[Len(hist')].op \in FilterOps

\* the requests a step has issued: those past the requests that were in flight
\* before it (a handler removes none)
IssuedByHandler == { i \in 1..Len(inflight') : i > Len(inflight) }

\* C12: every filter change (selected category, task search text, status
\* filter, priority filter) issues both a searchTasks with the new filter
\* values and a statistics recompute for the selected category.
C12_FilterChangeRefreshesBoth ==
  [][FilterChanged =>
       /\ \E i \in IssuedByHandler :
            /\ inflight'[i].kind = "searchTasks"
            /\ inflight'[i].arg = [category |-> selectedCategory',
                                   text |-> searchTaskText',
                                   status |-> statusFilter',
                                   priority |-> priorityFilter']
       /\ \E i \in IssuedByHandler :
            /\ inflight'[i].kind = "zip"
            /\ inflight'[i].arg = selectedCategory']_vars

(* ------------------- filter changes and the category map ---------------- *)

\* C13: a change of the selected category, the task search text, the status
\* filter or the priority filter leaves the category map as it is: neither the
\* handler nor the completion of a request it issued adds, removes or changes
\* an entry.
C13_FilterLeavesIndex == [][categoryMap' = categoryMap]_vars

\* C13 witness: a category was selected and another filter changed, their
\* requests have completed, and the map still holds its entry
C13_Witness ==
  /\ Settled
  /\ \E j \in 1..Len(hist) : hist[j].op = "onSelectCategory" /\ hist[j].arg = "c1"
  /\ \E j \in 1..Len(hist) : hist[j].op \in FilterOps \ { "onSelectCategory" }
  /\ tasks.def /\ statFrom[1].cat = "c1"
  /\ "c1" \in DOMAIN categoryMap

(* --------------- refresh after an added or deleted task ----------------- *)

\* one task was added or deleted and the facade applied the change; of the
\* requests that followed, at most the recount failed
OneTaskChangeConfirmed ==
  /\ Len(hist) = 1
  /\ hist[1].op \in { "onAddTask", "onDeleteTask" }
  /\ storVer = 1
  /\ failed \subseteq { "countAdd", "countDelete" }
  /\ failedStat = {}

\* the task list and the statistics are those of the storage and the filters
\* of the moment
RefreshedFromStorage ==
  /\ tasks = Defined(SearchTasksResult(storTasks, selectedCategory, searchTaskText,
                                       statusFilter, priorityFilter))
  /\ totalTasksCountInCategory = StatQuery(1, storTasks, selectedCategory)
  /\ completedCountInCategory = StatQuery(2, storTasks, selectedCategory)
  /\ uncompletedCountInCategory = StatQuery(3, storTasks, selectedCategory)
  /\ uncompletedTotalTasksCount = StatQuery(4, storTasks, selectedCategory)

\* C14: once an add or a delete of a task is confirmed, the task list refresh
\* and the statistics recompute are triggered independently of the recount:
\* they happen even if the recount fails, so the settled list and statistics
\* are those of the changed storage; and no recount is issued for a task that
\* has no category.
C14_RefreshIndependentOfRecount ==
  /\ \A i \in Pending("countAdd") \cup Pending("countDelete") :
        inflight[i].arg.t.category # NULL
  /\ (Settled /\ OneTaskChangeConfirmed) => RefreshedFromStorage

(* ------------------ one action at a time: specification ----------------- *)

\* the user waits for every request to complete before acting again
Idle == inflight = << >>

\* tasks and categories added and the category list searched, one action at
\* a time, no request failing
NextSettled ==
  \/ Idle /\ \E t \in NewTasks : onAddTask(t)
  \/ Idle /\ \E n \in NewCatTitles : onAddCategory(n)
  \/ Idle /\ onSearchCategory(Empty)
  \/ \E i \in Requests : ServeAddTask(i)
  \/ \E i \in Requests : DeliverAddTask(i)
  \/ \E i \in Requests : DeliverAddCount(i)
  \/ \E i \in Requests : ServeAddCategory(i)
  \/ \E i \in Requests : DeliverAddCategory(i)
  \/ \E i \in Requests : ServeQuery(i)
  \/ \E i \in Requests : DeliverSearchCategories(i)
  \/ \E i \in Requests : DeliverCountFill(i)
  \/ \E i \in Requests : DeliverSearchTasks(i)
  \/ StatSteps

SpecSettled ==
  (\E sync \in BOOLEAN : InitReady(MaxOps + 1, sync)) /\ [][NextSettled]_vars

\* the uncompleted tasks the run has added to category k
AddedUncompleted(k) ==
  Cardinality({ j \in 1..Len(hist) :
                  /\ hist[j].op = "onAddTask"
                  /\ hist[j].arg.category = k
                  /\ ~hist[j].arg.completed })

\* C15: with nothing else in flight, an added task changes the count the map
\* holds for its category by one exactly when the task is uncompleted, and
\* changes no other entry: at every settled point each entry is the original
\* uncompleted count of its category plus the uncompleted tasks added to it,
\* and the category of every added task has an entry.
C15_AddChangesCountByOne ==
  Settled =>
     /\ \A k \in DOMAIN categoryMap :
          categoryMap[k] = UncompletedCountInCategory(InitStorTasks, k)
                             + AddedUncompleted(k)
     /\ \A j \in 1..Len(hist) :
          (hist[j].op = "onAddTask" /\ hist[j].arg.category # NULL)
             => hist[j].arg.category \in DOMAIN categoryMap

\* C15 witness: the map held entries for two categories, an uncompleted task
\* was added to one of them, and everything has settled
C15_Witness ==
  /\ Settled
  /\ AddedUncompleted("c1") = 1
  /\ hist[Len(hist)].op = "onAddTask"
  /\ DOMAIN categoryMap = { "c1", "c2" }
  /\ categoryMap["c1"] = 2

(* ------------------------ a rebuild of the map -------------------------- *)

ListedCategoryIds == { c.id : c \in DisplayedCategories }

\* the run has rebuilt the map from a category list
Rebuilt ==
  \E j \in 1..Len(hist) : hist[j].op \in { "onSearchCategory", "onAddCategory" }

\* C17: a rebuild of the map empties it, issues one count query per category
\* of the category list and sets each count as it arrives: a category whose
\* count is still in flight has no entry, the keys of the map are always among
\* the categories of the list, and once every count has arrived, no other
\* action intervening, the keys are exactly the categories of the list.
C17_RebuildKeysAreList ==
  /\ \A i \in Pending("countFill") : inflight[i].arg.id \notin DOMAIN categoryMap
  /\ DOMAIN categoryMap \subseteq ListedCategoryIds
  /\ (Settled /\ Rebuilt) => DOMAIN categoryMap = ListedCategoryIds

\* C17 witness: in the middle of a rebuild over two categories, the count of
\* one has arrived and the count of the other is in flight
C17_Witness ==
  /\ ListedCategoryIds = { "c1", "c2" }
  /\ DOMAIN categoryMap = { "c1" }
  /\ \E i \in Pending("countFill") : inflight[i].arg.id = "c2"

(* ------------------------- an updated task ------------------------------ *)

\* nothing is in flight but the two lists ngOnInit loads
OnlyLoading ==
  \A i \in Requests : inflight[i].kind \in { "getAllPriorities", "getAllCategories" }

\* ngOnInit, then a task search and a displayed task ticked or unticked, the
\* user acting when nothing but the initial loads is in flight
NextUpdateTask ==
  \/ ngOnInit
  \/ OnlyLoading /\ onSearchTasks(Empty)
  \/ OnlyLoading /\ \E t \in DisplayedTasks :
                       onUpdateTask([t EXCEPT !.completed = ~t.completed])
  \/ \E i \in Requests : ServeQuery(i)
  \/ \E i \in Requests : ServeUpdateTask(i)
  \/ \E i \in Requests : DeliverPriorities(i)
  \/ \E i \in Requests : DeliverAllCategories(i)
  \/ \E i \in Requests : DeliverCountFill(i)
  \/ \E i \in Requests : DeliverSearchTasks(i)
  \/ \E i \in Requests : DeliverUpdateTask(i)
  \/ StatSteps

SpecUpdateTask == InitWith(MaxOps) /\ [][NextUpdateTask]_vars

\* the step delivers the confirmation of request i to its callback
Confirmed(i) ==
  /\ inflight[i].st = "served"
  /\ failed' = failed
  /\ Len(inflight') >= Len(inflight) - 1
  /\ SubSeq(inflight', 1, Len(inflight) - 1) = RemoveAt(inflight, i)

\* the requests a callback has issued: those past the ones that stay in flight
IssuedByCallback == { j \in 1..Len(inflight') : j >= Len(inflight) }

\* C16: the confirmation of an updated task triggers a task list refresh, a
\* full recount pass (the map is cleared and a count is requested for every
\* category of the category list) and a statistics recompute.
C16_UpdateTriggersAllThree ==
  [][\A i \in Pending("updateTask") :
       Confirmed(i) =>
          /\ categoryMap' = EmptyMap
          /\ categories.def
          /\ \A c \in DisplayedCategories :
               \E j \in IssuedByCallback :
                  inflight'[j].kind = "countFill" /\ inflight'[j].arg = c
          /\ \E j \in IssuedByCallback :
               /\ inflight'[j].kind = "searchTasks"
               /\ inflight'[j].arg.category = selectedCategory
          /\ \E j \in IssuedByCallback :
               inflight'[j].kind = "zip" /\ inflight'[j].arg = selectedCategory]_vars

(* ------------------- statistics and the selection ----------------------- *)

\* a category selected, the category list searched, a category deleted, one
\* action at a time, no request failing
NextSelection ==
  \/ Idle /\ \E c \in { NULL } \cup ShownCategoryIds : onSelectCategory(c)
  \/ Idle /\ \E c \in DisplayedCategories : onDeleteCategory(c)
  \/ Idle /\ onSearchCategory(Empty)
  \/ \E i \in Requests : ServeDeleteCategory(i)
  \/ \E i \in Requests : DeliverDeleteCategory(i)
  \/ \E i \in Requests : ServeQuery(i)
  \/ \E i \in Requests : DeliverSearchCategories(i)
  \/ \E i \in Requests : DeliverCountFill(i)
  \/ \E i \in Requests : DeliverSearchTasks(i)
  \/ StatSteps

SpecSelection ==
  (\E sync \in BOOLEAN : InitReady(MaxOps, sync)) /\ [][NextSelection]_vars

\* C18: every action that changes selectedCategory is followed by a statistics
\* recompute for the new selection: at every settled point the displayed
\* tuple is the one of the latest recompute, computed for the current
\* selectedCategory.
C18_SettledStatsForSelection ==
  (Settled /\ Published) =>
     \A k \in 1..4 : statFrom[k] = [inv |-> statSeq, cat |-> selectedCategory]

(* ---------------------------- initialization ---------------------------- *)

\* C19: the rebuild of the map that ngOnInit starts uses the categories that
\* getAllCategories returns: fillCategories has not run while the category list
\* was unset (so the list is set once ngOnInit has run), and once the
\* initialization has settled the category list is the loaded list and the map
\* holds an entry for every loaded category.
C19_InitIndexFromLoadedList ==
  /\ initialized => categories.def
  /\ (Settled /\ failed = {}) =>
        /\ ListedCategoryIds = StoredCategoryIds
        /\ \A k \in ListedCategoryIds : k \in DOMAIN categoryMap

(* ---------------------- overlapping category searches ------------------- *)

\* the category list searched and categories renamed, the requests completing
\* in any order and never failing
NextCategorySearch ==
  \/ \E n \in SearchTexts : onSearchCategory(n)
  \/ \E c \in RenamedCategories : onUpdateCategory(c)
  \/ \E i \in Requests : ServeUpdateCategory(i)
  \/ \E i \in Requests : DeliverUpdateCategory(i)
  \/ \E i \in Requests : ServeQuery(i)
  \/ \E i \in Requests : DeliverSearchCategories(i)
  \/ \E i \in Requests : DeliverCountFill(i)

SpecCategorySearch ==
  (\E sync \in BOOLEAN : InitReady(MaxOps, sync)) /\ [][NextCategorySearch]_vars

\* C20: when category searches overlap, whatever the order in which their
\* requests complete, the settled category list is the result of the search
\* for the current searchCategoryText and the keys of the settled map are the
\* categories of that list.
C20_SettledListIsLatestSearch ==
  (Settled /\ hist # << >>) =>
     /\ categories =
          Defined(SortByTitle(SearchCategoriesResult(storCats, searchCategoryText)))
     /\ DOMAIN categoryMap = ListedCategoryIds

====
